---- MODULE Spec2Model ----
(***************************************************************************)
(* Model of the retrying transport of slashdevops/httpx:                   *)
(* retryTransport.RoundTrip and the backoff strategies it calls.           *)
(*                                                                         *)
(* One RoundTrip call is followed from its entry to its return.  The       *)
(* underlying transport, the request's GetBody closure and the response    *)
(* bodies are the environment: every outcome they can produce is chosen    *)
(* nondeterministically.  The underlying transport follows the             *)
(* http.RoundTripper contract: it returns either a response and a nil      *)
(* error, or a nil response and a non-nil error.                           *)
(*                                                                         *)
(* Durations are in milliseconds.  time.Duration is a two's complement     *)
(* integer; the model keeps the wrap-around on DurationBits bits.          *)
(***************************************************************************)
EXTENDS Integers, Sequences, FiniteSets, TLC

\* ValidMinTimeout, the smallest timeout ClientBuilder.Build keeps.
ValidMinTimeout == 1000

\* Largest MaxRetries explored.
MaxRetriesBound == 3

\* Width of the duration integers of the model.
DurationBits == 16

\* http.StatusInternalServerError
StatusInternalServerError == 500

\* Status codes the underlying transport may answer with.
StatusCodes == {200, 404, 429, 500, 503}

\* Content of the request body when the request has one.
BodyContent == <<1, 2>>

(***************************************************************************)
(* Errors.  An error is the chain of its layers, outermost first; the nil  *)
(* error is the empty chain.  Unwrapping an error drops its first layer,   *)
(* so errors.Is(e, target) holds when target is a suffix of e.             *)
(***************************************************************************)
NilErr == << >>

New(msg) == << [msg |-> msg, code |-> 0] >>

\* fmt.Errorf with a %w verb around inner; code is the %d argument, if any.
Errorf(msg, code, inner) == << [msg |-> msg, code |-> code] >> \o inner

Is(e, target) == \E i \in 1..Len(e) : SubSeq(e, i, Len(e)) = target

ErrAllRetriesFailed == New("all retry attempts failed")

\* Errors of the environment.
TransportErrors == {New("connection refused"), New("i/o timeout")}
GetBodyErr == New("failed to get body")
ReadErr == New("read error during drain")
CloseErr == New("close error")

(***************************************************************************)
(* Backoff strategies.                                                     *)
(***************************************************************************)
Wrap(x) ==
    LET m == x % (2 ^ DurationBits)
    IN  IF m >= 2 ^ (DurationBits - 1) THEN m - 2 ^ DurationBits ELSE m

\* a * b on durations: the product wrapped, computed in two halves to keep the
\* intermediate values small.
Mul(a, b) ==
    LET h == 2 ^ (DurationBits \div 2)
    IN  Wrap(a * (b % h) + Wrap(a * (b \div h)) * h)

\* a / b on durations, b > 0: the quotient truncated towards zero.
Quot(a, b) == IF a >= 0 THEN a \div b ELSE -((-a) \div b)

\* 1 << uint(attempt) on a duration
ShiftLeftOne(attempt) ==
    IF attempt < 0 \/ attempt >= DurationBits THEN 0 ELSE Wrap(2 ^ attempt)

\* The cap left out: only a non-positive delay is replaced by maxDelay.
ExponentialBackoff_Uncapped(base, maxDelay, attempt) ==
    IF attempt = 0 /\ base > maxDelay
    THEN base
    ELSE LET d == Mul(base, ShiftLeftOne(attempt))
         IN  IF d <= 0 THEN maxDelay ELSE d

\* The special case of attempt 0 left out: the cap applied to every attempt.
ExponentialBackoff_AlwaysCapped(base, maxDelay, attempt) ==
    LET d == Mul(base, ShiftLeftOne(attempt))
    IN  IF d > maxDelay \/ d <= 0 THEN maxDelay ELSE d

ExponentialBackoff(base, maxDelay, attempt) ==
    IF attempt = 0 /\ base > maxDelay
    THEN base
    ELSE LET d == Mul(base, ShiftLeftOne(attempt))
         IN  IF d > maxDelay \/ d <= 0 THEN maxDelay ELSE d

FixedDelay(d, attempt) == d

\* rand.Int63n(n) panics when n <= 0.
Int63nPanics(n) == n <= 0

\* Values of rand.Int63n(n) the model draws: both ends of [0, n) and its middle.
Int63nDraws(n) == {0, n \div 2, n - 1} \cap (0..(n - 1))

\* The argument JitterBackoff gives to rand.Int63n: int64(baseDelay / 2).
JitterRange(baseDelay) == Quot(baseDelay, 2)

\* JitterBackoff(base, maxDelay)(attempt) when rand.Int63n returns jitter.
JitterBackoff(base, maxDelay, attempt, jitter) ==
    Wrap(ExponentialBackoff(base, maxDelay, attempt) + jitter)

DefaultBaseDelay == 500
DefaultMaxDelay == 10000

NilStrategy == [kind |-> "nil", base |-> 0, maxDelay |-> 0]
DefaultStrategy == [kind |-> "exponential", base |-> DefaultBaseDelay, maxDelay |-> DefaultMaxDelay]

Strategies == {NilStrategy, [kind |-> "fixed", base |-> 1, maxDelay |-> 0]}

\* The strategy called with the number of the attempt, counted from 1.
Delay_CountedFromOne(s, attempt) ==
    IF s.kind = "fixed"
    THEN FixedDelay(s.base, attempt + 1)
    ELSE ExponentialBackoff(s.base, s.maxDelay, attempt + 1)

\* retryStrategy(attempt)
Delay(s, attempt) ==
    IF s.kind = "fixed"
    THEN FixedDelay(s.base, attempt)
    ELSE ExponentialBackoff(s.base, s.maxDelay, attempt)

(***************************************************************************)
(* State.                                                                  *)
(***************************************************************************)
VARIABLES
    MaxRetries,     \* retryTransport.MaxRetries
    RetryStrategy,  \* retryTransport.RetryStrategy
    logger,         \* retryTransport.logger is not nil
    req,            \* the request: has a Body, what is left to read of it, has GetBody
    pc,             \* position of the RoundTrip call
    attempt,        \* loop variable
    resp,           \* index in trace of the last response, 0 when nil
    err,            \* error of the last underlying invocation
    retryStrategy,  \* the strategy in use
    delay,          \* delay computed for the coming sleep
    trace,          \* one entry per underlying invocation
    getBodyCalls,   \* number of calls of req.GetBody
    getBodyFailed,  \* a call of req.GetBody returned an error
    slept,          \* durations passed to time.Sleep
    strategyArgs,   \* arguments the strategy was called with
    logs,           \* events given to the logger
    ret,            \* what RoundTrip returned
    ctxDone,        \* the request's context is done (cancelled or past its deadline)
    cancelledAt,    \* position of the call when the context became done
    backoff,        \* a call of a backoff strategy on its own: arguments and result
    parked,         \* the local variables of a second RoundTrip call, while it does not run
    client,         \* ClientBuilder.client, the settings of the builder
    httpClient,     \* the client the last ClientBuilder.Build returned
    withCalls,      \* number of With* calls made on the ClientBuilder
    rb,             \* the RequestBuilder
    built,          \* what the last RequestBuilder.Build returned
    rbCalls         \* the calls made on the RequestBuilder: last one, rejected ones, count

vars == << MaxRetries, RetryStrategy, logger, req, pc, attempt, resp, err,
           retryStrategy, delay, trace, getBodyCalls, getBodyFailed, slept,
           strategyArgs, logs, ret, ctxDone, cancelledAt, backoff, parked,
           client, httpClient, withCalls, rb, built, rbCalls >>

config == << MaxRetries, RetryStrategy, logger >>

\* The request's context: RoundTrip never reads it.
context == << ctxDone, cancelledAt >>

\* The variables of one RoundTrip call.
call == << req, pc, attempt, resp, err, retryStrategy, delay, trace, getBodyCalls,
           getBodyFailed, slept, strategyArgs, logs, ret >>

\* The two builders.
clientBuilder == << client, httpClient, withCalls >>

requestBuilder == << rb, built, rbCalls >>

builders == << clientBuilder, requestBuilder >>

\* What a step of the RoundTrip call that runs leaves alone.
apart == << backoff, parked, builders >>

\* No strategy called on its own.
BackoffIdle ==
    [base |-> 0, maxDelay |-> 0, attempt |-> 0, called |-> "none",
     result |-> 0, panicked |-> FALSE]

\* Headers of the requests: pairs of a key and a value.
Authorization == << "Authorization", "Bearer my-token-123" >>
ContentType == << "Content-Type", "application/json" >>

\* The requests given to RoundTrip: a GET without a body or a POST with one,
\* both carrying the caller's Authorization header.
Requests ==
    { [Method |-> IF b THEN "POST" ELSE "GET",
       URL |-> "https://api.example.com/items",
       Header |-> IF b THEN {Authorization, ContentType} ELSE {Authorization},
       hasBody |-> b, Body |-> IF b THEN BodyContent ELSE << >>, hasGetBody |-> g] :
        b \in BOOLEAN, g \in BOOLEAN }

\* What one call of the underlying transport can produce.
Outcomes ==
    { [status |-> s, err |-> NilErr, readFails |-> rf, closeFails |-> cf] :
        s \in StatusCodes, rf \in BOOLEAN, cf \in BOOLEAN }
    \cup
    { [status |-> 0, err |-> e, readFails |-> FALSE, closeFails |-> FALSE] :
        e \in TransportErrors }

\* How much of the request body the underlying transport reads.
ReadAmounts(r) == {0, Len(r.Body)}

(***************************************************************************)
(* A second RoundTrip call on the same retryTransport.  The call that runs *)
(* has its local variables in the variables of the model; those of the     *)
(* call that waits are parked.                                             *)
(***************************************************************************)
\* The local variables of the call that runs, and its request.
Locals ==
    [req |-> req, pc |-> pc, attempt |-> attempt, resp |-> resp, err |-> err,
     retryStrategy |-> retryStrategy, delay |-> delay, trace |-> trace,
     getBodyCalls |-> getBodyCalls, getBodyFailed |-> getBodyFailed,
     slept |-> slept, strategyArgs |-> strategyArgs, ret |-> ret]

\* No second call.
NoCall == [pc |-> "none"]

\* The request of the second call: another URL.
OtherRequest ==
    [Method |-> "GET", URL |-> "https://api.example.com/orders",
     Header |-> {Authorization},
     hasBody |-> FALSE, Body |-> << >>, hasGetBody |-> FALSE]

(***************************************************************************)
(* ClientBuilder.  Durations in milliseconds.                              *)
(***************************************************************************)
ValidMaxIdleConns == 200
ValidMinIdleConns == 1
ValidMaxIdleConnsPerHost == 200
ValidMinIdleConnsPerHost == 1
ValidMaxIdleConnTimeout == 120000
ValidMinIdleConnTimeout == 1000
ValidMaxTLSHandshakeTimeout == 15000
ValidMinTLSHandshakeTimeout == 1000
ValidMaxExpectContinueTimeout == 5000
ValidMinExpectContinueTimeout == 1000
ValidMaxTimeout == 30000
ValidMaxRetries == 10
ValidMinRetries == 1
ValidMaxBaseDelay == 5000
ValidMinBaseDelay == 300
ValidMaxMaxDelay == 120000
ValidMinMaxDelay == 300
DefaultMaxRetries == 3
DefaultMaxIdleConns == 100
DefaultIdleConnTimeout == 90000
DefaultTLSHandshakeTimeout == 10000
DefaultExpectContinueTimeout == 1000
DefaultDisableKeepAlive == FALSE
DefaultMaxIdleConnsPerHost == 100
DefaultTimeout == 5000

FixedDelayStrategy == "fixed"
JitterBackoffStrategy == "jitter"
ExponentialBackoffStrategy == "exponential"

\* Strategy.IsValid
IsValid(s) == s \in {FixedDelayStrategy, JitterBackoffStrategy, ExponentialBackoffStrategy}

\* NewClientBuilder: the settings at their defaults, no proxy, no logger.
NewClientBuilder ==
    [maxIdleConns |-> DefaultMaxIdleConns,
     idleConnTimeout |-> DefaultIdleConnTimeout,
     tlsHandshakeTimeout |-> DefaultTLSHandshakeTimeout,
     expectContinueTimeout |-> DefaultExpectContinueTimeout,
     disableKeepAlive |-> DefaultDisableKeepAlive,
     maxIdleConnsPerHost |-> DefaultMaxIdleConnsPerHost,
     timeout |-> DefaultTimeout,
     maxRetries |-> DefaultMaxRetries,
     retryStrategyType |-> ExponentialBackoffStrategy,
     retryBaseDelay |-> DefaultBaseDelay,
     retryMaxDelay |-> DefaultMaxDelay,
     proxyURL |-> "",
     logger |-> FALSE]

\* Build not called yet.
NoHTTPClient == [built |-> FALSE]

\* Largest number of With* calls made on one ClientBuilder.
MaxWithCalls == 2

(***************************************************************************)
(* RequestBuilder.  A string the builder looks into (a key, a value, a     *)
(* path) is the sequence of its pieces, a piece being one character or a   *)
(* run of characters with no whitespace, '=', '&' or '/' in it that the    *)
(* canonical form of a header key leaves as it is.                         *)
(***************************************************************************)
\* The base URLs a builder is constructed with, each with what url.Parse makes
\* of it: "https://api.example.com/v1/", "api.example.com" (a path, no scheme),
\* "ftp://files.example.com", "http://" (no host), "://" (a parse error).
ExampleBaseURL ==
    [text |-> "https://api.example.com/v1/", parses |-> TRUE, Scheme |-> "https",
     Host |-> "api.example.com", Path |-> << "/", "v1", "/" >>]

BaseURLs ==
    { ExampleBaseURL,
      [text |-> "api.example.com", parses |-> TRUE, Scheme |-> "",
       Host |-> "", Path |-> << "api.example.com" >>],
      [text |-> "ftp://files.example.com", parses |-> TRUE, Scheme |-> "ftp",
       Host |-> "files.example.com", Path |-> << >>],
      [text |-> "http://", parses |-> TRUE, Scheme |-> "http",
       Host |-> "", Path |-> << >>],
      [text |-> "://", parses |-> FALSE, Scheme |-> "",
       Host |-> "", Path |-> << >>] }

\* The empty map.
EmptyMap == [k \in {} |-> << >>]

\* context.Background()
Background == "background"

\* NewRequestBuilder(baseURL)
NewRequestBuilder(baseURL) ==
    [method |-> "", baseURL |-> baseURL, path |-> << >>, queryParams |-> EmptyMap,
     headers |-> EmptyMap, body |-> "nil", bodyReader |-> "nil", ctx |-> Background,
     errors |-> << >>]

\* Build not called yet.
NotBuilt == [req |-> [isNil |-> TRUE], err |-> NilErr]

\* Largest number of calls made on one RequestBuilder, Build apart.
MaxBuilderCalls == 2

\* The builders as their constructors leave them, nothing called on them.
InitClientBuilder ==
    /\ client = NewClientBuilder
    /\ httpClient = NoHTTPClient
    /\ withCalls = 0

InitRequestBuilder(baseURL) ==
    /\ rb = NewRequestBuilder(baseURL)
    /\ built = NotBuilt
    /\ rbCalls = [last |-> "NewRequestBuilder", args |-> << baseURL.text >>,
                  rejected |-> 0, count |-> 0, baseURL |-> baseURL]

InitBuilders ==
    /\ InitClientBuilder
    /\ InitRequestBuilder(ExampleBaseURL)

InitCall ==
    /\ MaxRetries \in -1..MaxRetriesBound
    /\ RetryStrategy \in Strategies
    /\ logger \in BOOLEAN
    /\ req \in Requests
    /\ pc = "entry"
    /\ attempt = 0
    /\ resp = 0
    /\ err = NilErr
    /\ retryStrategy = NilStrategy
    /\ delay = 0
    /\ trace = << >>
    /\ getBodyCalls = 0
    /\ getBodyFailed = FALSE
    /\ slept = << >>
    /\ strategyArgs = << >>
    /\ logs = << >>
    /\ ret = [resp |-> 0, err |-> NilErr]
    /\ ctxDone = FALSE
    /\ cancelledAt = "none"

\* One call only.
InitAlone ==
    /\ InitCall
    /\ parked = NoCall

Init ==
    /\ InitAlone
    /\ backoff = BackoffIdle
    /\ InitBuilders

(***************************************************************************)
(* The decisions of RoundTrip.                                             *)
(***************************************************************************)
\* The loop left one attempt early.
LoopCond_Strict(a, max) == a < max

\* for attempt := 0; attempt <= r.MaxRetries; attempt++
LoopCond(a, max) == a <= max

\* req.Body != nil && req.GetBody != nil
NeedsGetBody(r) == r.hasBody /\ r.hasGetBody

\* The regenerated body dropped, the request keeps the body it had.
SetBody_Kept(r, bodyClone) == r

\* The request made anew around the regenerated body, its headers not copied.
SetBody_HeadersDropped(r, bodyClone) == [r EXCEPT !.Body = bodyClone, !.Header = {}]

\* req.Body = bodyClone
SetBody(r, bodyClone) == [r EXCEPT !.Body = bodyClone]

\* The regeneration error formatted with %v: its text kept, the error not wrapped.
GetBodyError_NotWrapped(e) == Errorf("failed to get request body for retry", 0, NilErr)

\* The regeneration failure reported as the exhaustion of the retries.
GetBodyError_AsExhausted(e) ==
    Errorf("failed to get request body for retry", 0, ErrAllRetriesFailed)

\* fmt.Errorf("failed to get request body for retry: %w", err)
GetBodyError(e) == Errorf("failed to get request body for retry", 0, e)

\* Client errors taken for retryable: the threshold at 400.
IsSuccess_ClientErrorsRetried(e, status) == e = NilErr /\ status < 400

\* Only 200 taken for a success.
IsSuccess_OnlyOK(e, status) == e = NilErr /\ status = 200

\* err == nil && resp.StatusCode < http.StatusInternalServerError
IsSuccess(e, status) == e = NilErr /\ status < StatusInternalServerError

\* Close skipped when io.Copy failed: the copy error returned before Close.
DrainAndClose_NoCloseAfterCopyError(t) ==
    [t EXCEPT !.readCalled = TRUE, !.readToEnd = ~t.readFails, !.closeCalled = ~t.readFails]

\* io.Copy(io.Discard, resp.Body) and then resp.Body.Close(), on the record of
\* the response: the body is read, to its end unless the read fails, and Close
\* is called whatever io.Copy returned.
DrainAndClose(t) ==
    [t EXCEPT !.readCalled = TRUE, !.readToEnd = ~t.readFails, !.closeCalled = TRUE]

\* The error of Close dropped, only the error of io.Copy looked at.
DiscardError_CloseIgnored(copyErr, closeErr) ==
    IF copyErr # NilErr
    THEN Errorf("failed to discard response body", 0, copyErr)
    ELSE NilErr

\* The error of io.Copy dropped, only the error of Close looked at.
DiscardError_CopyIgnored(copyErr, closeErr) ==
    IF closeErr # NilErr
    THEN Errorf("failed to close response body", 0, closeErr)
    ELSE NilErr

\* The error of Close looked at before the error of io.Copy.
DiscardError_CloseFirst(copyErr, closeErr) ==
    IF closeErr # NilErr
    THEN Errorf("failed to close response body", 0, closeErr)
    ELSE IF copyErr # NilErr
         THEN Errorf("failed to discard response body", 0, copyErr)
         ELSE NilErr

\* The error the discarding of a response ends the call with, if any.
DiscardError(copyErr, closeErr) ==
    IF copyErr # NilErr
    THEN Errorf("failed to discard response body", 0, copyErr)
    ELSE IF closeErr # NilErr
         THEN Errorf("failed to close response body", 0, closeErr)
         ELSE NilErr

\* One retry too few.
ShouldRetry_OneFewer(a, max) == a < max - 1

\* The test for remaining attempts left out: a backoff after every failure.
ShouldRetry_Always(a, max) == TRUE

\* attempt < r.MaxRetries
ShouldRetry(a, max) == a < max

\* The last transport error formatted with %v: not wrapped.
ExhaustedError_NotWrapped(e, r, status) ==
    IF e # NilErr
    THEN Errorf("all retries failed; last error", 0, NilErr)
    ELSE IF r # 0
         THEN Errorf("last attempt failed with status", status, ErrAllRetriesFailed)
         ELSE ErrAllRetriesFailed

\* No error made for a last attempt answered with a server error.
ExhaustedError_NilAfterServerError(e, r, status) ==
    IF e # NilErr
    THEN Errorf("all retries failed; last error", 0, e)
    ELSE NilErr

\* The error returned when the attempts are used up.
ExhaustedError(e, r, status) ==
    IF e # NilErr
    THEN Errorf("all retries failed; last error", 0, e)
    ELSE IF r # 0
         THEN Errorf("last attempt failed with status", status, ErrAllRetriesFailed)
         ELSE ErrAllRetriesFailed

StatusOf(r) == IF r = 0 THEN 0 ELSE trace[r].status

\* The retry announced with the index of the attempt, not its number.
WarnEvent_ZeroIndexed(a, d) ==
    [level |-> "WARN", attempt |-> a, max_retries |-> MaxRetries, attempts |-> 0,
     delay |-> d, error |-> err, status_code |-> IF err # NilErr THEN 0 ELSE StatusOf(resp),
     url |-> req.URL, method |-> req.Method]

\* r.logger.Warn("HTTP request failed, retrying", ...) and
\* r.logger.Warn("HTTP request returned server error, retrying", ...)
WarnEvent(a, d) ==
    [level |-> "WARN", attempt |-> a + 1, max_retries |-> MaxRetries, attempts |-> 0,
     delay |-> d, error |-> err, status_code |-> IF err # NilErr THEN 0 ELSE StatusOf(resp),
     url |-> req.URL, method |-> req.Method]

\* The failure reported with the number of retries, not of attempts.
ErrorEvent_RetriesCounted ==
    [level |-> "ERROR", attempt |-> 0, max_retries |-> 0, attempts |-> MaxRetries,
     delay |-> 0, error |-> err, status_code |-> IF err # NilErr THEN 0 ELSE StatusOf(resp),
     url |-> req.URL, method |-> req.Method]

\* r.logger.Error("All retry attempts failed", ...)
ErrorEvent ==
    [level |-> "ERROR", attempt |-> 0, max_retries |-> 0, attempts |-> MaxRetries + 1,
     delay |-> 0, error |-> err, status_code |-> IF err # NilErr THEN 0 ELSE StatusOf(resp),
     url |-> req.URL, method |-> req.Method]

\* The logger called without the test for nil.
Log_NoNilTest(event) ==
    IF err # NilErr \/ resp # 0 THEN Append(logs, event) ELSE logs

\* The logger calls: one event when there is a logger and an error or a response.
Log(event) ==
    IF logger /\ (err # NilErr \/ resp # 0) THEN Append(logs, event) ELSE logs

Return(r, e) ==
    /\ ret' = [resp |-> r, err |-> e]
    /\ pc' = "done"

(***************************************************************************)
(* The steps of RoundTrip.                                                 *)
(***************************************************************************)
RoundTripEntry ==
    /\ pc = "entry"
    /\ retryStrategy' = IF RetryStrategy = NilStrategy THEN DefaultStrategy ELSE RetryStrategy
    /\ attempt' = 0
    /\ pc' = "loop"
    /\ UNCHANGED << config, context, apart, req, resp, err, delay, trace, getBodyCalls, getBodyFailed,
                    slept, strategyArgs, logs, ret >>

LoopTest ==
    /\ pc = "loop"
    /\ IF LoopCond(attempt, MaxRetries)
       THEN pc' = "getbody" /\ UNCHANGED ret
       ELSE Return(0, ErrAllRetriesFailed)
    /\ UNCHANGED << config, context, apart, req, attempt, resp, err, retryStrategy, delay, trace,
                    getBodyCalls, getBodyFailed, slept, strategyArgs, logs >>

PrepareBody ==
    /\ pc = "getbody"
    /\ IF NeedsGetBody(req)
       THEN \E ok \in BOOLEAN :
               /\ getBodyCalls' = getBodyCalls + 1
               /\ IF ok
                  THEN /\ req' = SetBody(req, BodyContent)
                       /\ pc' = "send"
                       /\ UNCHANGED << ret, getBodyFailed >>
                  ELSE /\ getBodyFailed' = TRUE
                       /\ Return(0, GetBodyError(GetBodyErr))
                       /\ UNCHANGED req
       ELSE /\ pc' = "send"
            /\ UNCHANGED << req, ret, getBodyCalls, getBodyFailed >>
    /\ UNCHANGED << config, context, apart, attempt, resp, err, retryStrategy, delay, trace,
                    slept, strategyArgs, logs >>

Send ==
    /\ pc = "send"
    /\ \E o \in Outcomes, n \in ReadAmounts(req) :
          /\ trace' = Append(trace,
                 [method |-> req.Method, url |-> req.URL, header |-> req.Header,
                  bodyIn |-> req.Body, bodyRead |-> n, status |-> o.status, err |-> o.err,
                  readFails |-> o.readFails, closeFails |-> o.closeFails,
                  readToEnd |-> FALSE, readCalled |-> FALSE, closeCalled |-> FALSE,
                  ctxDone |-> ctxDone])
          /\ req' = [req EXCEPT !.Body = SubSeq(@, n + 1, Len(@))]
          /\ resp' = IF o.status # 0 THEN Len(trace) + 1 ELSE 0
          /\ err' = o.err
          /\ IF IsSuccess(o.err, o.status)
             THEN Return(Len(trace) + 1, NilErr)
             ELSE pc' = "discard" /\ UNCHANGED ret
    /\ UNCHANGED << config, context, apart, attempt, retryStrategy, delay, getBodyCalls, getBodyFailed,
                    slept, strategyArgs, logs >>

Discard ==
    /\ pc = "discard"
    /\ IF resp # 0
       THEN LET copyErr == IF trace[resp].readFails THEN ReadErr ELSE NilErr
                closeErr == IF trace[resp].closeFails THEN CloseErr ELSE NilErr
                e == DiscardError(copyErr, closeErr)
            IN  /\ trace' = [trace EXCEPT ![resp] = DrainAndClose(@)]
                /\ IF e # NilErr
                   THEN Return(0, e)
                   ELSE pc' = "decide" /\ UNCHANGED ret
       ELSE /\ pc' = "decide"
            /\ UNCHANGED << trace, ret >>
    /\ UNCHANGED << config, context, apart, req, attempt, resp, err, retryStrategy, delay,
                    getBodyCalls, getBodyFailed, slept, strategyArgs, logs >>

Decide ==
    /\ pc = "decide"
    /\ IF ShouldRetry(attempt, MaxRetries)
       THEN LET d == Delay(retryStrategy, attempt)
            IN  /\ delay' = d
                /\ strategyArgs' = Append(strategyArgs, attempt)
                /\ logs' = Log(WarnEvent(attempt, d))
                /\ pc' = "sleep"
                /\ UNCHANGED ret
       ELSE /\ logs' = Log(ErrorEvent)
            /\ Return(0, ExhaustedError(err, resp, StatusOf(resp)))
            /\ UNCHANGED << delay, strategyArgs >>
    /\ UNCHANGED << config, context, apart, req, attempt, resp, err, retryStrategy, trace,
                    getBodyCalls, getBodyFailed, slept >>

Sleep ==
    /\ pc = "sleep"
    /\ slept' = Append(slept, delay)
    /\ attempt' = attempt + 1
    /\ pc' = "loop"
    /\ UNCHANGED << config, context, apart, req, resp, err, retryStrategy, delay, trace,
                    getBodyCalls, getBodyFailed, strategyArgs, logs, ret >>

Next ==
    \/ RoundTripEntry
    \/ LoopTest
    \/ PrepareBody
    \/ Send
    \/ Discard
    \/ Decide
    \/ Sleep

Spec == Init /\ [][Next]_vars

\* A call without logger: the logger only records, the steps of a call are
\* the same with and without it.
InitLive ==
    /\ Init
    /\ ~logger

\* Each underlying invocation returns and each sleep ends: a call that can
\* take a step takes it.
SpecLive == InitLive /\ [][Next]_vars /\ WF_vars(Next)

(***************************************************************************)
(* The request's context.  The caller, or the timer http.Client starts for *)
(* its Timeout, makes the context done at any moment of the call; this is  *)
(* the whole effect of the Timeout that ClientBuilder.Build sets, the      *)
(* client waits for RoundTrip to return.  The calls are those of a client  *)
(* built with the default strategy, for a request without a body.          *)
(***************************************************************************)
Cancel ==
    /\ ~ctxDone
    /\ pc # "done"
    /\ ctxDone' = TRUE
    /\ cancelledAt' = pc
    /\ UNCHANGED << config, call, apart >>

InitCancel ==
    /\ Init
    /\ MaxRetries >= 0
    /\ RetryStrategy = NilStrategy
    /\ ~logger
    /\ ~req.hasBody
    /\ ~req.hasGetBody

NextCancel ==
    \/ Next
    \/ Cancel

SpecCancel == InitCancel /\ [][NextCancel]_vars

(***************************************************************************)
(* Two RoundTrip calls on one retryTransport, for distinct requests.  The  *)
(* scheduler switches between the two goroutines at any step; the fields   *)
(* of the transport and the logger are what the two calls share.           *)
(***************************************************************************)
\* Largest MaxRetries of the transport the two calls share.
MaxConcurrentRetries == 1

\* The attempt counter kept in the transport: a call that runs again finds
\* what the other call left in it.
ResumedAttempt_Shared(p) == attempt

\* attempt is a local variable of RoundTrip: a call that runs again finds its own.
ResumedAttempt(p) == p.attempt

Switch ==
    /\ parked.pc # "none"
    /\ parked' = Locals
    /\ req' = parked.req
    /\ pc' = parked.pc
    /\ attempt' = ResumedAttempt(parked)
    /\ resp' = parked.resp
    /\ err' = parked.err
    /\ retryStrategy' = parked.retryStrategy
    /\ delay' = parked.delay
    /\ trace' = parked.trace
    /\ getBodyCalls' = parked.getBodyCalls
    /\ getBodyFailed' = parked.getBodyFailed
    /\ slept' = parked.slept
    /\ strategyArgs' = parked.strategyArgs
    /\ ret' = parked.ret
    /\ UNCHANGED << config, context, logs, backoff, builders >>

InitConcurrent ==
    /\ InitCall
    /\ MaxRetries \in 0..MaxConcurrentRetries
    /\ RetryStrategy = NilStrategy
    /\ ~logger
    /\ ~req.hasBody
    /\ ~req.hasGetBody
    /\ parked = [Locals EXCEPT !.req = OtherRequest]
    /\ backoff = BackoffIdle
    /\ InitBuilders

NextConcurrent ==
    \/ Next
    \/ Switch

SpecConcurrent == InitConcurrent /\ [][NextConcurrent]_vars

(***************************************************************************)
(* The backoff strategies called on their own, as the tests call them:     *)
(* the strategy is built from base and maxDelay and called once with       *)
(* attempt.                                                                *)
(***************************************************************************)
\* Largest and smallest duration.
MaxDuration == 2 ^ (DurationBits - 1) - 1
MinDuration == -(2 ^ (DurationBits - 1))

\* Durations the strategies are built from.
Durations ==
    {-1, 0, 1, 2, 3, 5, 100, DefaultBaseDelay, DefaultMaxDelay,
     2 ^ (DurationBits - 2) + 1, MaxDuration}

\* Largest attempt the strategies are called with: past the width of a duration.
MaxAttempt == DurationBits + 1

InitBackoff ==
    /\ InitAlone
    /\ InitBuilders
    /\ MaxRetries = 0
    /\ RetryStrategy = NilStrategy
    /\ ~logger
    /\ ~req.hasBody
    /\ ~req.hasGetBody
    /\ backoff \in { [base |-> b, maxDelay |-> m, attempt |-> a, called |-> "none",
                       result |-> 0, panicked |-> FALSE] :
                         b \in Durations, m \in Durations, a \in 0..MaxAttempt }

CallExponential ==
    /\ backoff.called = "none"
    /\ backoff' = [backoff EXCEPT
                      !.called = "exponential",
                      !.result = ExponentialBackoff(backoff.base, backoff.maxDelay, backoff.attempt)]
    /\ UNCHANGED << config, context, call, parked, builders >>

CallFixed ==
    /\ backoff.called = "none"
    /\ backoff' = [backoff EXCEPT
                      !.called = "fixed",
                      !.result = FixedDelay(backoff.base, backoff.attempt)]
    /\ UNCHANGED << config, context, call, parked, builders >>

CallJitter ==
    /\ backoff.called = "none"
    /\ LET baseDelay == ExponentialBackoff(backoff.base, backoff.maxDelay, backoff.attempt)
           n == JitterRange(baseDelay)
       IN  IF Int63nPanics(n)
           THEN backoff' = [backoff EXCEPT !.called = "jitter", !.panicked = TRUE]
           ELSE \E jitter \in Int63nDraws(n) :
                   backoff' = [backoff EXCEPT
                                 !.called = "jitter",
                                 !.result = JitterBackoff(backoff.base, backoff.maxDelay,
                                                          backoff.attempt, jitter)]
    /\ UNCHANGED << config, context, call, parked, builders >>

NextBackoff ==
    \/ CallExponential
    \/ CallFixed
    \/ CallJitter

SpecBackoff == InitBackoff /\ [][NextBackoff]_vars

(***************************************************************************)
(* ClientBuilder: With* calls, each storing its argument as it is, and     *)
(* Build.                                                                  *)
(***************************************************************************)
\* Arguments of a setter whose valid range is min..max: the two bounds and
\* their outer neighbours.
Around(min, max) == {min - 1, min, max, max + 1}

\* Strategy types given to the builder, one of them unknown.
StrategyTypes ==
    {FixedDelayStrategy, JitterBackoffStrategy, ExponentialBackoffStrategy, "linear"}

\* Proxy URLs given to the builder: none, one url.Parse accepts, one it rejects.
ProxyURLs == {"", "http://proxy.example.com:8080", "://proxy"}

\* url.Parse(proxyURL) returns no error.
ProxyParses(u) == u # "://proxy"

\* A With* call: the setting stored, nothing checked.
With(c) ==
    /\ withCalls < MaxWithCalls
    /\ client' = c
    /\ withCalls' = withCalls + 1
    /\ UNCHANGED << config, context, call, backoff, parked, httpClient, requestBuilder >>

WithMaxIdleConns ==
    \E maxIdleConns \in Around(ValidMinIdleConns, ValidMaxIdleConns) :
        With([client EXCEPT !.maxIdleConns = maxIdleConns])

WithIdleConnTimeout ==
    \E idleConnTimeout \in Around(ValidMinIdleConnTimeout, ValidMaxIdleConnTimeout) :
        With([client EXCEPT !.idleConnTimeout = idleConnTimeout])

WithTLSHandshakeTimeout ==
    \E tlsHandshakeTimeout \in Around(ValidMinTLSHandshakeTimeout, ValidMaxTLSHandshakeTimeout) :
        With([client EXCEPT !.tlsHandshakeTimeout = tlsHandshakeTimeout])

WithExpectContinueTimeout ==
    \E expectContinueTimeout \in Around(ValidMinExpectContinueTimeout, ValidMaxExpectContinueTimeout) :
        With([client EXCEPT !.expectContinueTimeout = expectContinueTimeout])

WithDisableKeepAlive ==
    \E disableKeepAlive \in BOOLEAN :
        With([client EXCEPT !.disableKeepAlive = disableKeepAlive])

WithMaxIdleConnsPerHost ==
    \E maxIdleConnsPerHost \in Around(ValidMinIdleConnsPerHost, ValidMaxIdleConnsPerHost) :
        With([client EXCEPT !.maxIdleConnsPerHost = maxIdleConnsPerHost])

WithTimeout ==
    \E timeout \in Around(ValidMinTimeout, ValidMaxTimeout) :
        With([client EXCEPT !.timeout = timeout])

WithMaxRetries ==
    \E maxRetries \in Around(ValidMinRetries, ValidMaxRetries) :
        With([client EXCEPT !.maxRetries = maxRetries])

WithRetryBaseDelay ==
    \E baseDelay \in Around(ValidMinBaseDelay, ValidMaxBaseDelay) :
        With([client EXCEPT !.retryBaseDelay = baseDelay])

WithRetryMaxDelay ==
    \E maxDelay \in Around(ValidMinMaxDelay, ValidMaxMaxDelay) :
        With([client EXCEPT !.retryMaxDelay = maxDelay])

WithRetryStrategy ==
    \E strategy \in StrategyTypes :
        With([client EXCEPT !.retryStrategyType = strategy])

WithRetryStrategyAsString ==
    \E strategy \in StrategyTypes :
        With([client EXCEPT !.retryStrategyType =
                  IF IsValid(strategy) THEN strategy ELSE ExponentialBackoffStrategy])

WithLogger ==
    \E l \in BOOLEAN :
        With([client EXCEPT !.logger = l])

WithProxy ==
    \E proxyURL \in ProxyURLs :
        With([client EXCEPT !.proxyURL = proxyURL])

\* A value outside its range brought to the nearest bound of the range.
Validated_Clamped(v, min, max, default) ==
    IF v < min THEN min ELSE IF v > max THEN max ELSE v

\* if v < min || v > max { v = default }
Validated(v, min, max, default) ==
    IF v < min \/ v > max THEN default ELSE v

\* The settings after the range checks of Build.
Checked(c) ==
    [c EXCEPT
       !.maxIdleConns = Validated(@, ValidMinIdleConns, ValidMaxIdleConns, DefaultMaxIdleConns),
       !.idleConnTimeout = Validated(@, ValidMinIdleConnTimeout, ValidMaxIdleConnTimeout,
                                     DefaultIdleConnTimeout),
       !.tlsHandshakeTimeout = Validated(@, ValidMinTLSHandshakeTimeout,
                                         ValidMaxTLSHandshakeTimeout, DefaultTLSHandshakeTimeout),
       !.expectContinueTimeout = Validated(@, ValidMinExpectContinueTimeout,
                                           ValidMaxExpectContinueTimeout,
                                           DefaultExpectContinueTimeout),
       !.maxIdleConnsPerHost = Validated(@, ValidMinIdleConnsPerHost, ValidMaxIdleConnsPerHost,
                                         DefaultMaxIdleConnsPerHost),
       !.timeout = Validated(@, ValidMinTimeout, ValidMaxTimeout, DefaultTimeout),
       !.maxRetries = Validated(@, ValidMinRetries, ValidMaxRetries, DefaultMaxRetries),
       !.retryBaseDelay = Validated(@, ValidMinBaseDelay, ValidMaxBaseDelay, DefaultBaseDelay),
       !.retryMaxDelay = Validated(@, ValidMinMaxDelay, ValidMaxMaxDelay, DefaultMaxDelay)]

\* The settings Build logs a warning for, when there is a logger.
Warned(c) ==
    IF c.logger
    THEN { f \in {"maxIdleConns", "idleConnTimeout", "tlsHandshakeTimeout",
                  "expectContinueTimeout", "maxIdleConnsPerHost", "timeout",
                  "maxRetries", "retryBaseDelay", "retryMaxDelay"} : Checked(c)[f] # c[f] }
         \cup (IF IsValid(c.retryStrategyType) THEN {} ELSE {"retryStrategyType"})
         \cup (IF c.proxyURL # "" /\ ~ProxyParses(c.proxyURL) THEN {"proxyURL"} ELSE {})
    ELSE {}

\* finalStrategyType
FinalStrategyType(t) == IF IsValid(t) THEN t ELSE ExponentialBackoffStrategy

\* finalRetryStrategy, from the settings after the range checks
FinalRetryStrategy(c) ==
    IF FinalStrategyType(c.retryStrategyType) = FixedDelayStrategy
    THEN [kind |-> FixedDelayStrategy, base |-> c.retryBaseDelay, maxDelay |-> 0]
    ELSE [kind |-> FinalStrategyType(c.retryStrategyType), base |-> c.retryBaseDelay,
          maxDelay |-> c.retryMaxDelay]

\* The http.Transport Build makes.
StandardTransport(c) ==
    [MaxIdleConns |-> c.maxIdleConns,
     IdleConnTimeout |-> c.idleConnTimeout,
     TLSHandshakeTimeout |-> c.tlsHandshakeTimeout,
     ExpectContinueTimeout |-> c.expectContinueTimeout,
     DisableKeepAlives |-> c.disableKeepAlive,
     MaxIdleConnsPerHost |-> c.maxIdleConnsPerHost,
     Proxy |-> IF c.proxyURL # "" /\ ProxyParses(c.proxyURL) THEN c.proxyURL ELSE ""]

\* ClientBuilder.Build: the corrected settings are stored in the builder and
\* the client is made from them.
ClientBuilderBuild ==
    LET c == Checked(client)
    IN  /\ client' = c
        /\ httpClient' =
              [built |-> TRUE,
               given |-> client,
               warnings |-> Warned(client),
               Timeout |-> c.timeout,
               Transport |-> [Transport |-> StandardTransport(c),
                              MaxRetries |-> c.maxRetries,
                              RetryStrategy |-> FinalRetryStrategy(c),
                              logger |-> c.logger]]
        /\ UNCHANGED << config, context, call, backoff, parked, withCalls, requestBuilder >>

InitClient ==
    /\ InitAlone
    /\ MaxRetries = 0
    /\ RetryStrategy = NilStrategy
    /\ ~logger
    /\ ~req.hasBody
    /\ ~req.hasGetBody
    /\ backoff = BackoffIdle
    /\ InitBuilders

NextClient ==
    \/ WithMaxIdleConns
    \/ WithIdleConnTimeout
    \/ WithTLSHandshakeTimeout
    \/ WithExpectContinueTimeout
    \/ WithDisableKeepAlive
    \/ WithMaxIdleConnsPerHost
    \/ WithTimeout
    \/ WithMaxRetries
    \/ WithRetryBaseDelay
    \/ WithRetryMaxDelay
    \/ WithRetryStrategy
    \/ WithRetryStrategyAsString
    \/ WithLogger
    \/ WithProxy
    \/ ClientBuilderBuild

SpecClient == InitClient /\ [][NextClient]_vars

(***************************************************************************)
(* RequestBuilder: the setters, Build and Reset.                           *)
(***************************************************************************)
Whitespace == {" ", "\t", "\n", "\r"}

\* Largest number of characters of a user agent.
MaxUserAgentLen == 500

\* strings.ContainsAny(s, chars)
ContainsAny(s, chars) == \E i \in 1..Len(s) : s[i] \in chars

\* Keys of headers and query parameters given to the builder: "", "x", "X",
\* "x " and "x=".
Keys == { << >>, << "x" >>, << "X" >>, << "x", " " >>, << "x", "=" >> }

\* Values given to the builder: "" and "v".
Values == { << >>, << "v" >> }

\* Largest number of entries of a map given to WithHeaders or WithQueryParams.
MaxMapSize == 1

\* Keys of the maps given to the builder: "", which the setters of one entry
\* reject, and "x" and "X", which differ in case only.
MapKeys == { << >>, << "x" >>, << "X" >> }

Maps ==
    { m \in UNION { [D -> Values] : D \in SUBSET MapKeys } : Cardinality(DOMAIN m) <= MaxMapSize }

\* Methods given to WithMethod.
MethodArgs == {"", " ", "GET", "get", " post ", "FETCH"}

\* strings.ToUpper(strings.TrimSpace(method)), for the methods of MethodArgs
ToUpperTrimSpace(method) ==
    CASE method = " " -> ""
      [] method = "get" -> "GET"
      [] method = " post " -> "POST"
      [] OTHER -> method

isValidHTTPMethod(method) ==
    method \in {"GET", "POST", "PUT", "DELETE", "PATCH", "HEAD", "OPTIONS", "TRACE", "CONNECT"}

\* Paths given to WithPath: "", "users" and "/users".
Paths == { << >>, << "users" >>, << "/", "users" >> }

\* Bodies given to WithJSONBody: nil, a value json.Marshal encodes, one it rejects.
JSONBodies == {"nil", "order", "channel"}

\* json.Marshal(body) returns no error.
Marshals(body) == body # "channel"

\* The content json.Marshal(body) returns: null for nil.
Marshal(body) ==
    CASE body = "nil" -> "null"
      [] body = "order" -> "{\"name\":\"test\",\"value\":42}"
      [] OTHER -> ""

\* Contexts given to WithContext.
Contexts == {"nil", Background, "request"}

addError(b, e) == [b EXCEPT !.errors = Append(@, e)]

\* url.Values.Add
Add(q, key, value) ==
    [k \in DOMAIN q \cup {key} |->
        IF k # key THEN q[k]
        ELSE IF key \in DOMAIN q THEN Append(q[key], value) ELSE << value >>]

withHeader(b, key, value) ==
    IF key = << >>
    THEN addError(b, "header key cannot be empty")
    ELSE IF value = << >>
         THEN addError(b, "header value cannot be empty")
         ELSE IF ContainsAny(key, Whitespace)
              THEN addError(b, "invalid header key format")
              ELSE [b EXCEPT !.headers =
                       [k \in DOMAIN @ \cup {key} |-> IF k = key THEN value ELSE @[k]]]

\* Reset with the headers left in the builder.
reset_HeadersKept(b) ==
    [b EXCEPT !.errors = << >>, !.method = "", !.path = << >>, !.queryParams = EmptyMap,
              !.body = "nil", !.bodyReader = "nil", !.ctx = Background]

\* RequestBuilder.Reset
reset(b) ==
    [b EXCEPT !.errors = << >>, !.method = "", !.path = << >>, !.queryParams = EmptyMap,
              !.headers = EmptyMap, !.body = "nil", !.bodyReader = "nil",
              !.ctx = Background]

\* A call of a method of the builder other than Build, with its arguments:
\* the builder it leaves, and whether it added an error.
Call(name, args, b) ==
    /\ rbCalls.count < MaxBuilderCalls
    /\ rb' = b
    /\ rbCalls' = [rbCalls EXCEPT
                     !.last = name,
                     !.args = args,
                     !.count = @ + 1,
                     !.rejected = IF name = "Reset" THEN 0
                                  ELSE IF Len(b.errors) > Len(rb.errors) THEN @ + 1 ELSE @]
    /\ UNCHANGED << config, context, call, backoff, parked, clientBuilder, built >>

WithMethod ==
    \E method \in MethodArgs :
        Call("WithMethod", << method >>,
             IF method = ""
             THEN addError(rb, "http method cannot be empty")
             ELSE IF ~isValidHTTPMethod(ToUpperTrimSpace(method))
                  THEN addError(rb, "invalid http method")
                  ELSE [rb EXCEPT !.method = ToUpperTrimSpace(method)])

\* WithMethodGET, WithMethodPOST and the seven like them.
WithMethodGET ==
    \E method \in {"GET", "POST"} : Call("WithMethodGET", << >>, [rb EXCEPT !.method = method])

WithPath == \E path \in Paths : Call("WithPath", << path >>, [rb EXCEPT !.path = path])

WithQueryParam ==
    \E key \in Keys, value \in Values :
        Call("WithQueryParam", << key, value >>,
             IF key = << >>
             THEN addError(rb, "query parameter key cannot be empty")
             ELSE IF value = << >>
                  THEN addError(rb, "query parameter value cannot be empty")
                  ELSE IF ContainsAny(key, Whitespace \cup {"=", "&"})
                       THEN addError(rb, "invalid query parameter key format")
                       ELSE [rb EXCEPT !.queryParams = Add(@, key, value)])

\* for key, value := range params { rb.queryParams.Add(key, value) }: the keys
\* of a map differ, so the order of the loop does not show.
WithQueryParams ==
    \E params \in Maps :
        Call("WithQueryParams", << params >>,
             [rb EXCEPT !.queryParams =
                 [k \in DOMAIN @ \cup DOMAIN params |->
                     IF k \notin DOMAIN params THEN @[k] ELSE Add(@, k, params[k])[k]]])

WithHeader ==
    \E key \in Keys, value \in Values : Call("WithHeader", << key, value >>, withHeader(rb, key, value))

\* maps.Copy(rb.headers, headers)
WithHeaders ==
    \E headers \in Maps :
        Call("WithHeaders", << headers >>,
             [rb EXCEPT !.headers =
                 [k \in DOMAIN @ \cup DOMAIN headers |->
                     IF k \in DOMAIN headers THEN headers[k] ELSE @[k]]])

WithBearerAuth ==
    \E token \in Values :
        Call("WithBearerAuth", << token >>,
             IF token = << >>
             THEN addError(rb, "bearer token cannot be empty")
             ELSE [rb EXCEPT !.headers =
                      [k \in DOMAIN @ \cup {<< "Authorization" >>} |->
                          IF k = << "Authorization" >> THEN << "Bearer " >> \o token ELSE @[k]]])

\* User agents given to WithUserAgent: "", " ", "agent", " agent\n", "a\tb"
\* and one of 501 characters.
UserAgents ==
    { << >>, << " " >>, << "agent" >>, << " ", "agent", "\n" >>, << "a", "\t", "b" >>,
      << "a", "500 more" >> }

\* strings.TrimSpace
RECURSIVE TrimSpace(_)
TrimSpace(s) ==
    IF s # << >> /\ Head(s) \in Whitespace THEN TrimSpace(Tail(s))
    ELSE IF s # << >> /\ s[Len(s)] \in Whitespace THEN TrimSpace(SubSeq(s, 1, Len(s) - 1))
    ELSE s

\* len(s): a piece is one character, the run "agent" is five, "500 more" 500.
RECURSIVE StrLen(_)
StrLen(s) ==
    IF s = << >> THEN 0
    ELSE StrLen(Tail(s)) + (CASE Head(s) = "agent" -> 5
                              [] Head(s) = "500 more" -> 500
                              [] OTHER -> 1)

\* The Authorization header is "Basic " and the base64 encoding of
\* username:password.
WithBasicAuth ==
    \E username \in Values, password \in Values :
        Call("WithBasicAuth", << username, password >>,
             IF username = << >>
             THEN addError(rb, "username for basic auth cannot be empty")
             ELSE IF password = << >>
                  THEN addError(rb, "password for basic auth cannot be empty")
                  ELSE [rb EXCEPT !.headers =
                           [k \in DOMAIN @ \cup {<< "Authorization" >>} |->
                               IF k = << "Authorization" >>
                               THEN << "Basic ", "base64 of " >> \o username \o << ":" >>
                                       \o password
                               ELSE @[k]]])

WithUserAgent ==
    \E userAgent \in UserAgents :
        Call("WithUserAgent", << userAgent >>,
             IF userAgent = << >>
             THEN addError(rb, "user-agent cannot be empty")
             ELSE IF TrimSpace(userAgent) = << >>
                  THEN addError(rb, "user-agent cannot be empty after trimming whitespace")
                  ELSE IF StrLen(TrimSpace(userAgent)) > MaxUserAgentLen
                       THEN addError(rb, "user-agent is too long")
                       ELSE IF ContainsAny(TrimSpace(userAgent), {"\r", "\n", "\t"})
                            THEN addError(rb, "user-agent cannot contain control characters")
                            ELSE [rb EXCEPT !.headers =
                                     [k \in DOMAIN @ \cup {<< "User-Agent" >>} |->
                                         IF k = << "User-Agent" >> THEN TrimSpace(userAgent)
                                         ELSE @[k]]])

\* The body stored, then WithContentType("application/json"), a call of WithHeader.
WithJSONBody ==
    \E body \in JSONBodies :
        Call("WithJSONBody", << body >>,
             withHeader([rb EXCEPT !.body = body, !.bodyReader = "nil"],
                        << "Content-Type" >>, << "application/json" >>))

WithStringBody ==
    Call("WithStringBody", << "text" >>, [rb EXCEPT !.bodyReader = "text", !.body = "nil"])

WithContext ==
    \E ctx \in Contexts :
        Call("WithContext", << ctx >>,
             IF ctx = "nil"
             THEN addError(rb, "context cannot be nil")
             ELSE [rb EXCEPT !.ctx = ctx])

Reset == Call("Reset", << >>, reset(rb))

\* The error of url.Parse.
ParseErr == New("missing protocol scheme")

\* The error of json.Marshal.
MarshalErr == New("json: unsupported type")

\* strings.TrimSuffix(s, "/") and strings.TrimPrefix(s, "/")
TrimSuffix(s) == IF s # << >> /\ s[Len(s)] = "/" THEN SubSeq(s, 1, Len(s) - 1) ELSE s

TrimPrefix(s) == IF s # << >> /\ Head(s) = "/" THEN Tail(s) ELSE s

\* http.CanonicalMIMEHeaderKey: a key with a space or another byte no header
\* name may hold is left as it is; otherwise the first letter is made upper
\* case and the others lower case.
CanonicalMIMEHeaderKey(key) ==
    IF ContainsAny(key, Whitespace \cup {"="})
    THEN key
    ELSE [i \in 1..Len(key) |->
            IF i = 1 THEN (IF key[i] = "x" THEN "X" ELSE key[i])
            ELSE (IF key[i] = "X" THEN "x" ELSE key[i])]

\* The headers of the request after req.Header.Set(key, value) for every
\* entry of the builder's map, in the order the map is ranged over: of two
\* keys with one canonical form either value may be the last one set.
HeaderChoices(headers) ==
    LET canonical == { CanonicalMIMEHeaderKey(k) : k \in DOMAIN headers }
    IN  { h \in [canonical -> { headers[k] : k \in DOMAIN headers }] :
            \A c \in canonical :
                \E k \in DOMAIN headers : CanonicalMIMEHeaderKey(k) = c /\ headers[k] = h[c] }

Fail(e) == [req |-> [isNil |-> TRUE], err |-> e]

\* Build with the accumulated errors not looked at.
BuildResult_ErrorsIgnored(b, header) ==
    IF b.method = ""
    THEN Fail(New("HTTP method must be specified"))
    ELSE IF ~b.baseURL.parses
    THEN Fail(Errorf("invalid base URL", 0, ParseErr))
    ELSE IF b.baseURL.Scheme = ""
    THEN Fail(New("base URL must include a scheme (http or https)"))
    ELSE IF b.baseURL.Host = ""
    THEN Fail(New("base URL must include a host"))
    ELSE IF b.baseURL.Scheme \notin {"http", "https"}
    THEN Fail(New("unsupported url scheme"))
    ELSE IF b.body # "nil" /\ ~Marshals(b.body)
    THEN Fail(Errorf("failed to marshal JSON body", 0, MarshalErr))
    ELSE [req |->
             [isNil |-> FALSE,
              ctx |-> b.ctx,
              Method |-> b.method,
              URL |-> [Scheme |-> b.baseURL.Scheme,
                       Host |-> b.baseURL.Host,
                       Path |-> IF b.path # << >>
                                THEN TrimSuffix(b.baseURL.Path) \o << "/" >> \o TrimPrefix(b.path)
                                ELSE b.baseURL.Path,
                       Query |-> b.queryParams],
              Header |-> header,
              hasBody |-> b.body # "nil" \/ b.bodyReader # "nil",
              Body |-> IF b.body # "nil" THEN Marshal(b.body) ELSE b.bodyReader,
              hasGetBody |-> b.body # "nil" \/ b.bodyReader # "nil",
              GetBody |-> IF b.body # "nil" THEN "closure"
                          ELSE IF b.bodyReader # "nil" THEN "snapshot" ELSE "nil"],
          err |-> NilErr]

\* What Build returns for the builder b, header being the headers set on the
\* request.  http.NewRequestWithContext does not fail: the context is never
\* nil, the method is one of the standard ones and the URL was parsed.
\* The body of the request is the JSON encoding of the builder's body, or the
\* reader given to the builder.  GetBody is the closure Build makes for a
\* JSON body, and for the reader of a string the function
\* http.NewRequestWithContext makes, which returns the content the reader
\* had.
BuildResult(b, header) ==
    IF Len(b.errors) > 0
    THEN Fail(New("request builder errors"))
    ELSE IF b.method = ""
    THEN Fail(New("HTTP method must be specified"))
    ELSE IF ~b.baseURL.parses
    THEN Fail(Errorf("invalid base URL", 0, ParseErr))
    ELSE IF b.baseURL.Scheme = ""
    THEN Fail(New("base URL must include a scheme (http or https)"))
    ELSE IF b.baseURL.Host = ""
    THEN Fail(New("base URL must include a host"))
    ELSE IF b.baseURL.Scheme \notin {"http", "https"}
    THEN Fail(New("unsupported url scheme"))
    ELSE IF b.body # "nil" /\ ~Marshals(b.body)
    THEN Fail(Errorf("failed to marshal JSON body", 0, MarshalErr))
    ELSE [req |->
             [isNil |-> FALSE,
              ctx |-> b.ctx,
              Method |-> b.method,
              URL |-> [Scheme |-> b.baseURL.Scheme,
                       Host |-> b.baseURL.Host,
                       Path |-> IF b.path # << >>
                                THEN TrimSuffix(b.baseURL.Path) \o << "/" >> \o TrimPrefix(b.path)
                                ELSE b.baseURL.Path,
                       Query |-> b.queryParams],
              Header |-> header,
              hasBody |-> b.body # "nil" \/ b.bodyReader # "nil",
              Body |-> IF b.body # "nil" THEN Marshal(b.body) ELSE b.bodyReader,
              hasGetBody |-> b.body # "nil" \/ b.bodyReader # "nil",
              GetBody |-> IF b.body # "nil" THEN "closure"
                          ELSE IF b.bodyReader # "nil" THEN "snapshot" ELSE "nil"],
          err |-> NilErr]

\* r.GetBody(), for a request r that Build returned: the closure encodes the
\* body the builder holds when it is called.
GetBody(r) ==
    IF r.GetBody = "closure"
    THEN IF Marshals(rb.body)
         THEN [body |-> Marshal(rb.body), err |-> NilErr]
         ELSE [body |-> "", err |-> MarshalErr]
    ELSE [body |-> r.Body, err |-> NilErr]

\* RequestBuilder.Build: the builder is left as it is.
RequestBuilderBuild ==
    /\ \E header \in HeaderChoices(rb.headers) : built' = BuildResult(rb, header)
    /\ rbCalls' = [rbCalls EXCEPT !.last = "Build", !.args = << >>]
    /\ UNCHANGED << config, context, call, backoff, parked, clientBuilder, rb >>

InitRequest ==
    /\ InitAlone
    /\ MaxRetries = 0
    /\ RetryStrategy = NilStrategy
    /\ ~logger
    /\ ~req.hasBody
    /\ ~req.hasGetBody
    /\ backoff = BackoffIdle
    /\ InitClientBuilder
    /\ \E baseURL \in BaseURLs : InitRequestBuilder(baseURL)

NextRequest ==
    \/ WithMethod
    \/ WithMethodGET
    \/ WithPath
    \/ WithQueryParam
    \/ WithQueryParams
    \/ WithHeader
    \/ WithHeaders
    \/ WithBasicAuth
    \/ WithBearerAuth
    \/ WithUserAgent
    \/ WithJSONBody
    \/ WithStringBody
    \/ WithContext
    \/ Reset
    \/ RequestBuilderBuild

SpecRequest == InitRequest /\ [][NextRequest]_vars

\* The builder of a request with a JSON body, before Build:
\* NewRequestBuilder(...).WithMethodPOST().WithJSONBody(testData).  The calls
\* counted are those that follow.
InitGetBody ==
    /\ InitAlone
    /\ MaxRetries = 0
    /\ RetryStrategy = NilStrategy
    /\ ~logger
    /\ ~req.hasBody
    /\ ~req.hasGetBody
    /\ backoff = BackoffIdle
    /\ InitClientBuilder
    /\ rb = withHeader([NewRequestBuilder(ExampleBaseURL) EXCEPT
                           !.method = "POST", !.body = "order"],
                      << "Content-Type" >>, << "application/json" >>)
    /\ built = NotBuilt
    /\ rbCalls = [last |-> "WithJSONBody", args |-> << "order" >>, rejected |-> 0,
                  count |-> 0, baseURL |-> ExampleBaseURL]

SpecGetBody == InitGetBody /\ [][NextRequest]_vars

(***************************************************************************)
(* Vocabulary of the properties.                                           *)
(***************************************************************************)
Done == pc = "done"

Last == Len(trace)

\* The invocation answered with a response the caller is to get.
Succeeded(t) == t.err = NilErr /\ t.status < 500

\* The invocation ended in a transport-level error.
TransportFailed(t) == t.err # NilErr

\* The invocation answered with a server error whose body drains and closes.
ServerErrorClean(t) == t.err = NilErr /\ t.status >= 500 /\ ~t.readFails /\ ~t.closeFails

RetryableClean(t) == TransportFailed(t) \/ ServerErrorClean(t)

\* context.Canceled or context.DeadlineExceeded
ContextErrors == {New("context canceled"), New("context deadline exceeded")}

\* The events of one level, in the order of their emission.
Events(level) == SelectSeq(logs, LAMBDA e : e.level = level)

\* The call has returned because an attempt failed with no attempt left.
Exhausted ==
    /\ Done
    /\ ~getBodyFailed
    /\ trace # << >>
    /\ RetryableClean(trace[Last])

RECURSIVE Sum(_)
Sum(q) == IF q = << >> THEN 0 ELSE Head(q) + Sum(Tail(q))

Min(a, b) == IF a <= b THEN a ELSE b

\* base * 2^attempt as a number, the doubling stopped once the value is past
\* the largest duration: what it is then no longer matters.
RECURSIVE Scaled(_, _)
Scaled(base, n) ==
    IF n = 0 \/ base > MaxDuration \/ base < MinDuration
    THEN base
    ELSE Scaled(2 * base, n - 1)

\* base * 2^attempt is a duration: the multiplication does not overflow.
Fits(base, n) == Scaled(base, n) <= MaxDuration /\ Scaled(base, n) >= MinDuration

\* min(base * 2^attempt, maxDelay), attempt 0 with base > maxDelay apart.
CappedPower(base, maxDelay, n) ==
    IF n = 0 /\ base > maxDelay THEN base ELSE Min(Scaled(base, n), maxDelay)

\* The exponential value of the call in backoff.
ExponentialValue == ExponentialBackoff(backoff.base, backoff.maxDelay, backoff.attempt)

\* Time the call has spent sleeping: the attempts take no time in the model, so
\* the call has lasted at least this long.
Elapsed == Sum(slept)

\* The delay the strategy of the transport gives after the attempt of index a:
\* b, 2b, 4b, ... up to the cap for the default strategy, the fixed delay
\* otherwise.
ExpectedDelay(a) ==
    IF RetryStrategy = NilStrategy
    THEN Min(Scaled(DefaultBaseDelay, a), DefaultMaxDelay)
    ELSE RetryStrategy.base

\* What a call returns when it ends after the invocations of t, failed telling
\* whether GetBody failed.
ReturnAfter(t, failed) ==
    IF failed
    THEN [resp |-> 0, err |-> Errorf("failed to get request body for retry", 0, GetBodyErr)]
    ELSE IF t = << >>
    THEN [resp |-> 0, err |-> ErrAllRetriesFailed]
    ELSE LET l == t[Len(t)]
         IN  IF Succeeded(l)
             THEN [resp |-> Len(t), err |-> NilErr]
             ELSE IF l.err # NilErr
             THEN [resp |-> 0, err |-> Errorf("all retries failed; last error", 0, l.err)]
             ELSE IF l.readFails
             THEN [resp |-> 0, err |-> Errorf("failed to discard response body", 0, ReadErr)]
             ELSE IF l.closeFails
             THEN [resp |-> 0, err |-> Errorf("failed to close response body", 0, CloseErr)]
             ELSE [resp |-> 0,
                   err |-> Errorf("last attempt failed with status", l.status,
                                  ErrAllRetriesFailed)]

\* A header key or value a setter is documented to refuse: an empty key, a
\* key with white space, an empty value.
BadHeader(key, value) == key = << >> \/ value = << >> \/ ContainsAny(key, Whitespace)

\* A query key or value a setter is documented to refuse: an empty key, a key
\* with white space, "=" or "&", an empty value.
BadQueryParam(key, value) ==
    key = << >> \/ value = << >> \/ ContainsAny(key, Whitespace \cup {"=", "&"})

\* The arguments of the call are invalid input of the setter.
InvalidInput(name, args) ==
    CASE name = "WithMethod" -> ~isValidHTTPMethod(ToUpperTrimSpace(args[1]))
      [] name = "WithHeader" -> BadHeader(args[1], args[2])
      [] name = "WithHeaders" -> \E k \in DOMAIN args[1] : BadHeader(k, args[1][k])
      [] name = "WithQueryParam" -> BadQueryParam(args[1], args[2])
      [] name = "WithQueryParams" -> \E k \in DOMAIN args[1] : BadQueryParam(k, args[1][k])
      [] name = "WithBasicAuth" -> args[1] = << >> \/ args[2] = << >>
      [] name = "WithBearerAuth" -> args[1] = << >>
      [] name = "WithUserAgent" ->
            \/ TrimSpace(args[1]) = << >>
            \/ StrLen(TrimSpace(args[1])) > MaxUserAgentLen
            \/ ContainsAny(TrimSpace(args[1]), {"\r", "\n", "\t"})
      [] name = "WithContext" -> args[1] = "nil"
      [] OTHER -> FALSE

\* lo <= got <= hi, and got is given when given lies in lo..hi, default otherwise.
KeptOrDefault(given, got, lo, hi, default) ==
    /\ lo <= got
    /\ got <= hi
    /\ got = IF lo <= given /\ given <= hi THEN given ELSE default

(***************************************************************************)
(* Properties of RoundTrip.                                                *)
(***************************************************************************)

\* C1: with MaxRetries = N >= 0 a RoundTrip call makes at least 1 and at most
\* N + 1 underlying invocations, whether or not body regeneration, draining
\* or closing fail.
InvocationsBetweenOneAndMaxPlusOne ==
    MaxRetries >= 0 =>
        /\ Len(trace) <= MaxRetries + 1
        /\ Done => Len(trace) >= 1

ExhaustedByServerErrors ==
    ( /\ Done
      /\ MaxRetries >= 0
      /\ ~getBodyFailed
      /\ \A i \in 1..Len(trace) : ServerErrorClean(trace[i]) )
    => /\ Len(trace) = MaxRetries + 1
       /\ ret.resp = 0
       /\ Is(ret.err, ErrAllRetriesFailed)
       /\ Head(ret.err).code = trace[Last].status

ServerErrorsUntilExhausted ==
    /\ Done
    /\ MaxRetries = 2
    /\ Len(trace) = 3
    /\ \A i \in 1..3 : ServerErrorClean(trace[i]) /\ trace[i].status = 503

\* C4: when every attempt ends in a transport error, RoundTrip makes
\* MaxRetries + 1 invocations and returns a nil response and an error that
\* wraps the transport error of the last attempt.
ExhaustedByTransportErrors ==
    ( /\ Done
      /\ MaxRetries >= 0
      /\ ~getBodyFailed
      /\ \A i \in 1..Len(trace) : TransportFailed(trace[i]) )
    => /\ Len(trace) = MaxRetries + 1
       /\ ret.resp = 0
       /\ Is(ret.err, trace[Last].err)

TransportErrorsUntilExhausted ==
    /\ Done
    /\ MaxRetries = 1
    /\ Len(trace) = 2
    /\ TransportFailed(trace[1])
    /\ TransportFailed(trace[2])
    /\ trace[1].err # trace[2].err

\* C5: when the attempts are used up and the last failure was a transport
\* error, the returned error matches ErrAllRetriesFailed.
ExhaustedTransportErrorMatchesMarker ==
    ( /\ Done
      /\ MaxRetries >= 0
      /\ Len(trace) = MaxRetries + 1
      /\ TransportFailed(trace[Last]) )
    => Is(ret.err, ErrAllRetriesFailed)

FreshBodyOnEveryAttempt ==
    (req.hasBody /\ req.hasGetBody /\ ~getBodyFailed) =>
        \A i \in 1..Len(trace) : trace[i].bodyIn = BodyContent

BodyResentAfterItWasRead ==
    /\ req.hasBody
    /\ req.hasGetBody
    /\ ~getBodyFailed
    /\ Len(trace) = 2
    /\ trace[1].bodyRead = Len(BodyContent)
    /\ trace[2].bodyIn = BodyContent

\* C8: when GetBody returns an error, RoundTrip returns at once a nil
\* response and an error wrapping that error, and invokes the underlying
\* transport no more: a failure of the k-th call of GetBody leaves k - 1
\* invocations, one when the second call fails.
GetBodyFailureAborts ==
    getBodyFailed =>
        /\ Done
        /\ ret.resp = 0
        /\ Head(ret.err).msg = "failed to get request body for retry"
        /\ Is(ret.err, GetBodyErr)
        /\ Len(trace) = getBodyCalls - 1

GetBodyFailedOnSecondCall ==
    /\ getBodyFailed
    /\ getBodyCalls = 2
    /\ Len(trace) = 1
    /\ MaxRetries = MaxRetriesBound
    /\ Done

\* C9: a request with a body and no GetBody is not sent again after a
\* retryable outcome: no invocation gets a body that was already read.
NoReplayOfConsumedBody ==
    (req.hasBody /\ ~req.hasGetBody) =>
        \A i \in 1..Len(trace) : trace[i].bodyIn = BodyContent

\* C10: when reading the body of a retryable response fails, RoundTrip
\* returns at once a nil response and the 'failed to discard response body'
\* error wrapping the read error: no invocation and no sleep follow, on the
\* last attempt as on the others.
DrainFailureAborts ==
    \A i \in 1..Len(trace) :
        (trace[i].err = NilErr /\ trace[i].status >= 500 /\ trace[i].readFails) =>
            /\ i = Last
            /\ Len(slept) = i - 1
            /\ \/ pc = "discard"
               \/ /\ Done
                  /\ ret.resp = 0
                  /\ Head(ret.err).msg = "failed to discard response body"
                  /\ Is(ret.err, ReadErr)
                  /\ ~Is(ret.err, ErrAllRetriesFailed)

DrainFailedOnLastAttempt ==
    /\ Done
    /\ MaxRetries >= 1
    /\ attempt = MaxRetries
    /\ Len(trace) = MaxRetries + 1
    /\ trace[Last].status >= 500
    /\ trace[Last].readFails
    /\ trace[Last].readCalled

\* C11: when the body of a retryable response drains but its Close fails,
\* RoundTrip returns at once a nil response and the 'failed to close response
\* body' error wrapping the close error: no invocation and no sleep follow.
CloseFailureAborts ==
    \A i \in 1..Len(trace) :
        ( /\ trace[i].err = NilErr
          /\ trace[i].status >= 500
          /\ ~trace[i].readFails
          /\ trace[i].closeFails ) =>
            /\ i = Last
            /\ Len(slept) = i - 1
            /\ \/ pc = "discard"
               \/ /\ Done
                  /\ ret.resp = 0
                  /\ Head(ret.err).msg = "failed to close response body"
                  /\ Is(ret.err, CloseErr)

CloseFailedWithBudgetLeft ==
    /\ Done
    /\ Len(trace) >= 1
    /\ attempt < MaxRetries
    /\ trace[Last].status >= 500
    /\ ~trace[Last].readFails
    /\ trace[Last].closeFails
    /\ trace[Last].closeCalled

\* C12: every response that is not the one returned has had its body read, to
\* the end unless the read failed, and closed before the sleep or the next
\* attempt begins and when RoundTrip returns.
DiscardedBodiesDrainedAndClosed ==
    \A i \in 1..Len(trace) :
        ( /\ trace[i].status # 0
          /\ ~(pc = "discard" /\ i = Last)
          /\ ~(Done /\ ret.resp = i) ) =>
            /\ trace[i].readCalled
            /\ trace[i].readToEnd \/ trace[i].readFails
            /\ trace[i].closeCalled

ClosedAfterFailedDrain ==
    /\ Done
    /\ Len(trace) = 2
    /\ trace[1].status >= 500
    /\ trace[1].readToEnd
    /\ trace[1].closeCalled
    /\ trace[2].status >= 500
    /\ trace[2].readFails
    /\ trace[2].closeCalled

\* C13: when the context becomes done during the backoff sleep, RoundTrip
\* does not finish the sleep: it returns a cancellation error and starts no
\* other attempt.
CancelDuringSleepAborts ==
    cancelledAt = "sleep" =>
        \/ pc = "sleep"
        \/ /\ Done
           /\ ret.resp = 0
           /\ \E e \in ContextErrors : Is(ret.err, e)

\* C14: once the context is done RoundTrip invokes the underlying transport
\* no more.
NoInvocationAfterCancel ==
    \A i \in 1..Len(trace) : ~trace[i].ctxDone

\* C15: with a client timeout T, here the smallest one Build accepts, the
\* attempts and delays of one call never add up to more than T.
TimeoutBoundsRetrySequence ==
    Elapsed <= ValidMinTimeout

\* C16: a 429 response is retried while attempts remain: it is not what
\* RoundTrip returns.
TooManyRequestsRetried ==
    \A i \in 1..Len(trace) :
        (trace[i].err = NilErr /\ trace[i].status = 429 /\ i <= MaxRetries) =>
            ~(Done /\ ret.resp = i)

(***************************************************************************)
(* Properties of the backoff strategies.                                   *)
(***************************************************************************)

OverflowClampedToMaxDelay ==
    ( /\ backoff.called = "exponential"
      /\ backoff.base > 0
      /\ backoff.maxDelay > 0
      /\ backoff.attempt >= 1
      /\ ~Fits(backoff.base, backoff.attempt) ) =>
        backoff.result = backoff.maxDelay

\* C19: every value JitterBackoff returns is at least the exponential value
\* and less than 1.5 times it.
JitterWithinHalfOpenInterval ==
    (backoff.called = "jitter" /\ ~backoff.panicked) =>
        /\ backoff.result >= ExponentialValue
        /\ 2 * backoff.result < 3 * ExponentialValue

\* C20: when the exponential value is 0, JitterBackoff returns 0 and does not
\* panic.
ZeroJitterReturnsZero ==
    (backoff.called = "jitter" /\ ExponentialValue = 0) =>
        /\ ~backoff.panicked
        /\ backoff.result = 0

(***************************************************************************)
(* Properties of RoundTrip: the request, the logger, the strategy, two     *)
(* calls at once.                                                          *)
(***************************************************************************)

\* C21: at every moment of a RoundTrip call the request has the method, the
\* URL and the headers it had at entry: no step changes them, and every
\* attempt was sent with them.  Only the body is replaced.
RequestFrameKept ==
    /\ [](\A i \in 1..Len(trace) :
            /\ trace[i].method = req.Method
            /\ trace[i].url = req.URL
            /\ trace[i].header = req.Header)
    /\ [][ /\ req'.Method = req.Method
           /\ req'.URL = req.URL
           /\ req'.Header = req.Header ]_vars

AuthorizationSentOnEveryAttempt ==
    /\ Done
    /\ Len(trace) = 3
    /\ getBodyCalls = 3
    /\ \A i \in 1..3 : trace[i].method = "POST" /\ Authorization \in trace[i].header

\* C22: of two calls running at once on one transport, under every
\* interleaving, each counts its own attempts, sleeps its own delays, makes
\* at most MaxRetries + 1 invocations and all of them when its outcomes are
\* all retryable, and returns what its own outcomes decide; no step writes
\* MaxRetries, the strategy or the logger of the transport.
OwnBudget(c) ==
    /\ c.attempt = Len(c.slept)
    /\ Len(c.trace) \in {c.attempt, c.attempt + 1}
    /\ Len(c.trace) <= MaxRetries + 1
    /\ \A i \in 1..Len(c.slept) :
          c.slept[i] = ExpectedDelay(i - 1) /\ RetryableClean(c.trace[i])
    /\ c.pc = "done" =>
          /\ c.ret = ReturnAfter(c.trace, c.getBodyFailed)
          /\ (c.trace # << >> /\ RetryableClean(c.trace[Len(c.trace)])) =>
                Len(c.trace) = MaxRetries + 1

ConcurrentCallsIndependent ==
    /\ [](OwnBudget(Locals) /\ OwnBudget(parked))
    /\ [][ /\ MaxRetries' = MaxRetries
           /\ RetryStrategy' = RetryStrategy
           /\ logger' = logger ]_vars

OneCallExhaustedOtherInFirstBackoff ==
    /\ MaxRetries = MaxConcurrentRetries
    /\ parked.pc = "done"
    /\ Len(parked.trace) = MaxRetries + 1
    /\ Is(parked.ret.err, ErrAllRetriesFailed)
    /\ pc = "sleep"
    /\ attempt = 0

\* C23: what a call does is decided by MaxRetries, the strategy and the
\* outcomes of its attempts, the logger having no part in it: the delays are
\* those of the strategy, the call goes on exactly while the outcomes are
\* retryable and attempts remain, and it returns what the last outcome
\* decides.  With no logger no event is emitted.
LoggerChangesNothing ==
    [](/\ ~logger => logs = << >>
       /\ \A i \in 1..Len(slept) : slept[i] = ExpectedDelay(i - 1)
       /\ \A i \in 1..(Len(trace) - 1) : RetryableClean(trace[i])
       /\ Len(slept) \in {Len(trace) - 1, Len(trace)}
       /\ Done =>
             /\ ret = ReturnAfter(trace, getBodyFailed)
             /\ (~getBodyFailed /\ trace # << >>) => Len(slept) = Len(trace) - 1
             /\ (~getBodyFailed /\ trace # << >> /\ RetryableClean(trace[Last])) =>
                   Len(trace) = MaxRetries + 1)

RetriedWithoutLogger ==
    /\ Done
    /\ ~logger
    /\ MaxRetries = 2
    /\ RetryStrategy.kind = "fixed"
    /\ Len(trace) = 2
    /\ trace[1].status = 500
    /\ trace[2].status = 200
    /\ ret = [resp |-> 2, err |-> NilErr]
    /\ logs = << >>

GetBodyOnlyBeforeRetries ==
    getBodyCalls <= attempt

\* C30: the strategy is called once after each retryable outcome that leaves
\* attempts, with the index of the attempt, and the call sleeps what it
\* returned before the next attempt: the arguments are 0, 1, 2, ..., the
\* sleeps b, 2b, 4b, ... for the default strategy, and a call that ends in
\* success or exhaustion after n invocations has slept n - 1 times.
BackoffBetweenAttempts ==
    [](/\ \A i \in 1..Len(strategyArgs) :
             /\ strategyArgs[i] = i - 1
             /\ i - 1 < MaxRetries
             /\ RetryableClean(trace[i])
       /\ Len(strategyArgs) = IF pc = "sleep" THEN Len(slept) + 1 ELSE Len(slept)
       /\ pc = "sleep" => delay = ExpectedDelay(attempt)
       /\ \A i \in 1..Len(slept) : slept[i] = ExpectedDelay(i - 1)
       /\ pc \in {"discard", "decide", "done"} /\ ~getBodyFailed /\ trace # << >> =>
             Len(slept) = Len(trace) - 1)

SleptBetweenFourAttempts ==
    /\ Done
    /\ MaxRetries = 3
    /\ RetryStrategy = NilStrategy
    /\ Len(trace) = 4
    /\ strategyArgs = << 0, 1, 2 >>
    /\ slept = << 500, 1000, 2000 >>
    /\ Is(ret.err, ErrAllRetriesFailed)

\* C31: every call ends: it reaches the state done, in which it has returned
\* either a response with a status < 500 or one of the errors of exhaustion,
\* of GetBody, of the drain or of the close, after at most MaxRetries + 1
\* invocations; an invocation begins only when the sleep after the one before
\* has ended, a sleep only after an invocation, the call returns from an
\* attempt and not from a sleep, and no step follows the return.
CallTerminates ==
    /\ <>Done
    /\ [](/\ Len(trace) <= MaxRetries + 1
          /\ pc = "sleep" => Len(slept) = Len(trace) - 1
          /\ Done =>
                /\ \/ /\ ret.resp = Last
                      /\ ret.resp # 0
                      /\ ret.err = NilErr
                      /\ trace[Last].status < 500
                   \/ /\ ret.resp = 0
                      /\ ret.err # NilErr
                      /\ \/ Is(ret.err, ErrAllRetriesFailed)
                         \/ Head(ret.err).msg \in
                               { "all retries failed; last error",
                                 "failed to get request body for retry",
                                 "failed to discard response body",
                                 "failed to close response body" }
                /\ (trace # << >> /\ ~getBodyFailed) => Len(slept) = Len(trace) - 1)
    /\ [][/\ ~Done
          /\ Len(trace') > Len(trace) => Len(slept) = Len(trace)
          /\ Len(slept') > Len(slept) => Len(slept) = Len(trace) - 1]_vars

TerminatedAfterOneBackoff ==
    /\ Done
    /\ MaxRetries = 1
    /\ Len(trace) = 2
    /\ Len(slept) = 1
    /\ ServerErrorClean(trace[1])
    /\ trace[2].status = 404
    /\ ret = [resp |-> 2, err |-> NilErr]

\* C32: with a logger, every retry is announced by one warning and there is
\* no other warning: the i-th warning tells of the i-th attempt, which failed
\* in a way that is retried and was not the last one allowed, and carries the
\* number i, MaxRetries, the delay that is slept next, the method and the URL
\* of the request, and the status of the response or the error of the
\* transport; it is emitted when the response, if any, was read and closed
\* and the sleep has not begun.  A call that ended after n invocations
\* emitted n - 1 warnings.
RetriesAnnounced ==
    /\ [](logger =>
            /\ Len(Events("WARN")) = Len(strategyArgs)
            /\ \A i \in 1..Len(Events("WARN")) :
                  /\ Events("WARN")[i] =
                        [level |-> "WARN", attempt |-> i, max_retries |-> MaxRetries,
                         attempts |-> 0,
                         delay |-> IF i <= Len(slept) THEN slept[i] ELSE delay,
                         error |-> trace[i].err, status_code |-> trace[i].status,
                         url |-> trace[i].url, method |-> trace[i].method]
                  /\ RetryableClean(trace[i])
                  /\ i <= MaxRetries
                  /\ trace[i].status # 0 => trace[i].readCalled /\ trace[i].closeCalled
            /\ (Done /\ ~getBodyFailed /\ trace # << >>) =>
                  Len(Events("WARN")) = Len(trace) - 1)
    /\ [][(logger /\ Events("WARN")' # Events("WARN")) =>
            /\ Len(Events("WARN")') = Len(Events("WARN")) + 1
            /\ Len(slept) = Len(Events("WARN"))
            /\ resp # 0 => trace[resp].readCalled /\ trace[resp].closeCalled
            /\ slept' = slept
            /\ pc' = "sleep"]_vars

WarnedOfServerErrorThenOfTransportError ==
    /\ Done
    /\ logger
    /\ MaxRetries = 2
    /\ Len(trace) = 3
    /\ trace[3].status = 200
    /\ Len(logs) = 2
    /\ logs[1].level = "WARN"
    /\ logs[1].attempt = 1
    /\ logs[1].status_code = 503
    /\ logs[2].level = "WARN"
    /\ logs[2].attempt = 2
    /\ logs[2].error = New("i/o timeout")
    /\ logs[2].delay = slept[2]

\* C33: with a logger and MaxRetries >= 0, the call emits one error-level
\* event when it returns because an attempt failed with no attempt left, and
\* in no other case: none while it runs, none when it returns a response or
\* the error of GetBody, of the drain or of the close.  The event is the last
\* one and its attempts value, MaxRetries + 1, is the number of invocations
\* the call made.
ExhaustionReported ==
    [](logger /\ MaxRetries >= 0 =>
         /\ Len(Events("ERROR")) = IF Exhausted THEN 1 ELSE 0
         /\ Exhausted =>
               /\ logs[Len(logs)] =
                     [level |-> "ERROR", attempt |-> 0, max_retries |-> 0,
                      attempts |-> Len(trace), delay |-> 0,
                      error |-> trace[Last].err, status_code |-> trace[Last].status,
                      url |-> trace[Last].url, method |-> trace[Last].method]
               /\ Len(trace) = MaxRetries + 1)

ErrorEventAfterThreeServerErrors ==
    /\ Done
    /\ logger
    /\ MaxRetries = 2
    /\ Len(trace) = 3
    /\ \A i \in 1..3 : trace[i].status = 500 /\ ServerErrorClean(trace[i])
    /\ Len(logs) = 3
    /\ logs[3].level = "ERROR"
    /\ logs[3].attempts = 3
    /\ logs[3].status_code = 500

\* C34: RoundTrip returns either a response and a nil error, or no response
\* and an error, never both and never neither; a response it returns is the
\* one of the last invocation, without a transport error and with a status
\* < 500.
ResponseOrError ==
    [](Done =>
         \/ /\ ret.resp # 0
            /\ ret.err = NilErr
            /\ ret.resp = Last
            /\ trace[ret.resp].err = NilErr
            /\ trace[ret.resp].status # 0
            /\ trace[ret.resp].status < 500
         \/ /\ ret.resp = 0
            /\ ret.err # NilErr)

ServerErrorNotHandedToCaller ==
    /\ Done
    /\ MaxRetries = 0
    /\ Len(trace) = 1
    /\ trace[1].status = 503
    /\ ServerErrorClean(trace[1])
    /\ ret.resp = 0
    /\ ret.err # NilErr

\* C35: a response with a status < 500 is returned as the transport under
\* RoundTrip gave it: RoundTrip has not read its body and has not closed it,
\* after failed attempts too; no other response is returned.
ReturnedResponseUntouched ==
    [](\A i \in 1..Len(trace) :
         (Succeeded(trace[i]) \/ (Done /\ ret.resp = i)) =>
            /\ Done
            /\ ret = [resp |-> i, err |-> NilErr]
            /\ Succeeded(trace[i])
            /\ ~trace[i].readCalled
            /\ ~trace[i].readToEnd
            /\ ~trace[i].closeCalled)

FreshResponseAfterDrainedOne ==
    /\ Done
    /\ Len(trace) = 2
    /\ trace[1].status = 500
    /\ trace[1].readToEnd
    /\ trace[1].closeCalled
    /\ trace[2].status = 200
    /\ ~trace[2].readCalled
    /\ ~trace[2].closeCalled
    /\ ret = [resp |-> 2, err |-> NilErr]

\* C36: a response whose body RoundTrip reads is closed too, whether the
\* read reached the end or failed; when the read and the close both fail
\* the call returns the 'failed to discard response body' error, which wraps
\* the error of the read and not the one of the close.
CloseFollowsDrain ==
    [](\A i \in 1..Len(trace) :
         trace[i].readCalled =>
            /\ trace[i].closeCalled
            /\ trace[i].readToEnd = ~trace[i].readFails
            /\ (trace[i].readFails /\ trace[i].closeFails) =>
                  /\ Done
                  /\ i = Last
                  /\ ret.resp = 0
                  /\ Head(ret.err).msg = "failed to discard response body"
                  /\ Is(ret.err, ReadErr)
                  /\ ~Is(ret.err, CloseErr))

DrainAndCloseBothFailed ==
    /\ Done
    /\ Len(trace) = 1
    /\ trace[1].status = 500
    /\ trace[1].readFails
    /\ trace[1].closeFails
    /\ trace[1].closeCalled
    /\ Is(ret.err, ReadErr)

(***************************************************************************)
(* Properties of ClientBuilder.Build.                                      *)
(***************************************************************************)

\* C25: every setting of the client Build returns lies in its range, and is
\* the value the builder was given when that value lies in the range, bounds
\* included, and the default of the setting otherwise; a strategy type that
\* is none of fixed, jitter and exponential gives the exponential strategy.
BuiltSettingsInRange ==
    httpClient.built =>
        LET g == httpClient.given
            r == httpClient.Transport
            t == httpClient.Transport.Transport
        IN  /\ KeptOrDefault(g.timeout, httpClient.Timeout, 1000, 30000, DefaultTimeout)
            /\ KeptOrDefault(g.maxRetries, r.MaxRetries, 1, 10, DefaultMaxRetries)
            /\ KeptOrDefault(g.retryBaseDelay, r.RetryStrategy.base, 300, 5000, DefaultBaseDelay)
            /\ r.RetryStrategy.kind # "fixed" =>
                  KeptOrDefault(g.retryMaxDelay, r.RetryStrategy.maxDelay, 300, 120000,
                                DefaultMaxDelay)
            /\ KeptOrDefault(g.maxIdleConns, t.MaxIdleConns, 1, 200, DefaultMaxIdleConns)
            /\ KeptOrDefault(g.idleConnTimeout, t.IdleConnTimeout, 1000, 120000,
                             DefaultIdleConnTimeout)
            /\ KeptOrDefault(g.tlsHandshakeTimeout, t.TLSHandshakeTimeout, 1000, 15000,
                             DefaultTLSHandshakeTimeout)
            /\ r.RetryStrategy.kind =
                  IF g.retryStrategyType \in {"fixed", "jitter", "exponential"}
                  THEN g.retryStrategyType
                  ELSE "exponential"

TimeoutDefaultedRetriesKept ==
    /\ httpClient.built
    /\ httpClient.given.timeout = 30001
    /\ httpClient.Timeout = 5000
    /\ httpClient.given.maxRetries = 10
    /\ httpClient.Transport.MaxRetries = 10

(***************************************************************************)
(* Properties of RequestBuilder.                                           *)
(***************************************************************************)

\* C26: while an error has been accumulated since the construction or the
\* last Reset, the errors stay in the builder, whatever is called on it, and
\* Build returns a nil request and an error.
BuildFailsWhileErrorsAccumulated ==
    rbCalls.rejected > 0 =>
        /\ Len(rb.errors) = rbCalls.rejected
        /\ rbCalls.last = "Build" => built.req.isNil /\ built.err # NilErr

BuildFailedAfterValidSetter ==
    /\ rbCalls.last = "Build"
    /\ rbCalls.rejected = 1
    /\ rbCalls.count = 2
    /\ rb.method = "GET"
    /\ rb.baseURL = ExampleBaseURL
    /\ built.req.isNil
    /\ built.err # NilErr

\* C27: every header and every query parameter of a request Build returns
\* has a key and a value that are not empty, no whitespace in a header key,
\* no whitespace, '=' or '&' in a query key.
BuiltRequestWellFormed ==
    ~built.req.isNil =>
        /\ \A k \in DOMAIN built.req.Header :
              /\ k # << >>
              /\ built.req.Header[k] # << >>
              /\ ~ContainsAny(k, Whitespace)
        /\ \A k \in DOMAIN built.req.URL.Query :
              /\ k # << >>
              /\ \A i \in 1..Len(built.req.URL.Query[k]) : built.req.URL.Query[k][i] # << >>
              /\ ~ContainsAny(k, Whitespace \cup {"=", "&"})

\* C28: after Reset the builder is the builder NewRequestBuilder makes for
\* the base URL it was constructed with, so what follows is what would
\* follow on a new builder.
ResetGivesNewBuilder ==
    rbCalls.last = "Reset" => rb = NewRequestBuilder(rbCalls.baseURL)

ResetAfterBuild ==
    /\ rbCalls.last = "Reset"
    /\ rbCalls.count = 2
    /\ ~built.req.isNil
    /\ built.req.Method = "POST"

\* C37: a call of a setter with invalid input adds one error to the errors of
\* the builder and changes nothing else of it; a call of a setter with valid
\* input leaves the errors as they are.
InvalidInputRejected ==
    [][(rbCalls'.count = rbCalls.count + 1 /\ rbCalls'.last # "Reset") =>
         IF InvalidInput(rbCalls'.last, rbCalls'.args)
         THEN /\ Len(rb'.errors) = Len(rb.errors) + 1
              /\ [rb' EXCEPT !.errors = rb.errors] = rb
         ELSE rb'.errors = rb.errors]_vars

\* C38: the body that GetBody of a request built with a JSON body returns
\* has the content the body of the request had when Build returned it,
\* whatever has been called on the builder since.
RegeneratedBodyIsBuiltBody ==
    (~built.req.isNil /\ built.req.GetBody = "closure") =>
        GetBody(built.req) = [body |-> built.req.Body, err |-> NilErr]

\* The delay the strategy of the built client returns for an attempt.
ClientDelay(n) ==
    LET s == httpClient.Transport.RetryStrategy
    IN  ExponentialBackoff(s.base, s.maxDelay, n)

\* The client was built and its strategy is the exponential one.
ExponentialClient ==
    /\ httpClient.built
    /\ httpClient.Transport.RetryStrategy.kind = ExponentialBackoffStrategy

\* retryMaxDelay and retryBaseDelay after the range checks of the Build that
\* made the client.
EffectiveMaxDelay == Checked(httpClient.given).retryMaxDelay

EffectiveBaseDelay == Checked(httpClient.given).retryBaseDelay

\* The attempts a call through the built client asks a delay for.
ClientAttempts == 0..(httpClient.Transport.MaxRetries - 1)

====
